---- MODULE Spec2Model ----
(***************************************************************************)
(* Resilient delivery pipeline of the Feishu channel plugin: the outbound  *)
(* facade (outbound.ts), the media delivery orchestrator                   *)
(* (send-media-fallback.ts), the webhook sender and quota classifier       *)
(* (webhook.ts) and the image host multiplexer (image-host.ts).            *)
(*                                                                         *)
(* A JavaScript string is a sequence of one-character strings, so that     *)
(* includes / startsWith / trim / extname / template literals are computed *)
(* as the code computes them.  A run of non-ASCII characters of a literal  *)
(* is written as one symbol named after what it shows.                     *)
(***************************************************************************)
EXTENDS Integers, Sequences, FiniteSets, TLC

\* ------------------------------------------------------------------------
\* JavaScript string primitives
\* ------------------------------------------------------------------------

\* the value of an absent optional string (undefined / null)
Undefined == <<"#undefined">>

Truthy(s) == s # Undefined /\ s # <<>>

StartsWith(s, p) == Len(s) >= Len(p) /\ SubSeq(s, 1, Len(p)) = p

Includes(s, p) == \E i \in 0..(Len(s) - Len(p)) : SubSeq(s, i + 1, i + Len(p)) = p

UpperLetters == <<"A","B","C","D","E","F","G","H","I","J","K","L","M","N","O","P","Q","R","S","T","U","V","W","X","Y","Z">>

LowerLetters == <<"a","b","c","d","e","f","g","h","i","j","k","l","m","n","o","p","q","r","s","t","u","v","w","x","y","z">>

IsLetter(c) == \E i \in 1..26 : UpperLetters[i] = c \/ LowerLetters[i] = c

LowerChar(c) ==
    IF \E i \in 1..26 : UpperLetters[i] = c
    THEN LowerLetters[CHOOSE i \in 1..26 : UpperLetters[i] = c]
    ELSE c

ToLowerCase(s) == [i \in 1..Len(s) |-> LowerChar(s[i])]

IsSpace(c) == c \in {" ", "\n", "\t", "\r"}

Trim(s) ==
    IF \A i \in 1..Len(s) : IsSpace(s[i])
    THEN <<>>
    ELSE LET a == CHOOSE i \in 1..Len(s) : ~IsSpace(s[i]) /\ \A j \in 1..(i - 1) : IsSpace(s[j])
             b == CHOOSE i \in 1..Len(s) : ~IsSpace(s[i]) /\ \A j \in (i + 1)..Len(s) : IsSpace(s[j])
         IN  SubSeq(s, a, b)

\* String.prototype.replace(pattern, replacement) with a string pattern:
\* the first occurrence only
ReplaceFirst(s, p, r) ==
    IF ~Includes(s, p)
    THEN s
    ELSE LET i == CHOOSE k \in 0..(Len(s) - Len(p)) :
                      /\ SubSeq(s, k + 1, k + Len(p)) = p
                      /\ \A j \in 0..(k - 1) : SubSeq(s, j + 1, j + Len(p)) # p
         IN  SubSeq(s, 1, i) \o r \o SubSeq(s, i + Len(p) + 1, Len(s))

DigitChars == <<"0","1","2","3","4","5","6","7","8","9">>

RECURSIVE IntToStr(_)
\* `${n}` of a non-negative integer
IntToStr(n) ==
    IF n < 10
    THEN <<DigitChars[n + 1]>>
    ELSE IntToStr(n \div 10) \o <<DigitChars[(n % 10) + 1]>>

\* an error value: String(e) is "<name>: <message>", the name or the message
\* alone when the other is empty
MkError(message) == [name |-> <<"E","r","r","o","r">>, message |-> message]

NoError == [name |-> <<>>, message |-> <<>>]

ErrorString(e) ==
    IF e.name = <<>> THEN e.message
    ELSE IF e.message = <<>> THEN e.name
    ELSE e.name \o <<":"," ">> \o e.message

\* ------------------------------------------------------------------------
\* webhook.ts
\* ------------------------------------------------------------------------

isQuotaError_CaseSensitive(error) ==
    IF error = NoError
    THEN FALSE
    ELSE LET errorStr == ErrorString(error) IN
         \/ Includes(errorStr, <<"4","2","9">>)
         \/ Includes(errorStr, <<"9","9","9","9","1","4","0","3">>)
         \/ Includes(errorStr, <<"q","u","o","t","a">>)
         \/ Includes(errorStr, <<"r","a","t","e"," ","l","i","m","i","t">>)

\* lines 65-83
isQuotaError(error) ==
    IF error = NoError
    THEN FALSE
    ELSE LET errorStr == ErrorString(error) IN
         \/ Includes(errorStr, <<"4","2","9">>)
         \/ Includes(errorStr, <<"9","9","9","9","1","4","0","3">>)
         \/ Includes(ToLowerCase(errorStr), <<"q","u","o","t","a">>)
         \/ Includes(ToLowerCase(errorStr), <<"r","a","t","e"," ","l","i","m","i","t">>)

\* mention.ts is not part of the sources; every caller modelled here passes
\* mentions: undefined, written as the empty list
buildMentionedCardContent(mentions, text) ==
    IF Len(mentions) = 0 THEN text ELSE mentions[1] \o <<" ">> \o text

\* the JSON body sendViaWebhook builds from its parameters
WebhookPayload(params) ==
    LET content == IF Len(params.mentions) > 0
                   THEN buildMentionedCardContent(params.mentions, params.text)
                   ELSE params.text
    IN  [msg_type |-> "interactive",
         card |-> [config |-> [wide_screen_mode |-> TRUE],
                   elements |-> << [tag |-> "markdown", content |-> content] >>]]

ResponseOk(status) == status \in 200..299

\* what sendViaWebhook does with the response of its POST: NoError when it
\* resolves, the error it throws otherwise.  response.threw is the error
\* raised by fetch / response.json() themselves.
WebhookSendError(response) ==
    IF response.threw # NoError
    THEN response.threw
    ELSE IF ~ResponseOk(response.status)
    THEN MkError(<<"W","e","b","h","o","o","k"," ","r","e","q","u","e","s","t"," ","f","a","i","l","e","d",":"," ">> \o IntToStr(response.status)
                 \o <<" ">> \o response.statusText)
    ELSE IF response.code # 0
    THEN MkError(<<"W","e","b","h","o","o","k"," ","s","e","n","d"," ","f","a","i","l","e","d",":"," ">> \o
                 (IF Truthy(response.msg)
                  THEN response.msg
                  ELSE <<"c","o","d","e"," ">> \o IntToStr(response.code)))
    ELSE NoError

\* ------------------------------------------------------------------------
\* image-host.ts
\* ------------------------------------------------------------------------

uploadToCatbox(response) ==
    IF response.threw # NoError
    THEN [ok |-> FALSE, url |-> <<>>, error |-> response.threw]
    ELSE IF ~ResponseOk(response.status)
    THEN [ok |-> FALSE, url |-> <<>>,
          error |-> MkError(<<"c","a","t","b","o","x"," ","u","p","l","o","a","d"," ","f","a","i","l","e","d",":"," ">> \o IntToStr(response.status)
                            \o <<" ","-"," ">> \o response.body)]
    ELSE IF response.body # <<>> /\ StartsWith(response.body, <<"h","t","t","p","s",":","/","/">>)
    THEN [ok |-> TRUE, url |-> response.body, error |-> NoError]
    ELSE [ok |-> FALSE, url |-> <<>>,
          error |-> MkError(<<"c","a","t","b","o","x"," ","u","p","l","o","a","d"," ","f","a","i","l","e","d",":"," ","i","n","v","a","l","i","d"," ","r","e","s","p","o","n","s","e"," ","-"," ">> \o response.body)]

uploadTo0x0(response) ==
    IF response.threw # NoError
    THEN [ok |-> FALSE, url |-> <<>>, error |-> response.threw]
    ELSE IF ~ResponseOk(response.status)
    THEN [ok |-> FALSE, url |-> <<>>,
          error |-> MkError(<<"0","x","0",".","s","t"," ","u","p","l","o","a","d"," ","f","a","i","l","e","d",":"," ">> \o IntToStr(response.status)
                            \o <<" ","-"," ">> \o response.body)]
    ELSE IF response.body # <<>> /\ StartsWith(Trim(response.body), <<"h","t","t","p","s",":","/","/">>)
    THEN [ok |-> TRUE, url |-> Trim(response.body), error |-> NoError]
    ELSE [ok |-> FALSE, url |-> <<>>,
          error |-> MkError(<<"0","x","0",".","s","t"," ","u","p","l","o","a","d"," ","f","a","i","l","e","d",":"," ","i","n","v","a","l","i","d"," ","r","e","s","p","o","n","s","e"," ","-"," ">> \o response.body)]

\* the adapters, were 0x0.st listed first
services_Reversed == << "0x0.st", "catbox" >>

\* the fixed, ordered list of host adapters
services == << "catbox", "0x0.st" >>

ServiceUpload(name, response) ==
    IF name = "catbox" THEN uploadToCatbox(response) ELSE uploadTo0x0(response)

AllHostsFailedError(lastError) ==
    MkError(<<"A","l","l"," ","i","m","a","g","e"," ","h","o","s","t","i","n","g"," ","s","e","r","v","i","c","e","s"," ","f","a","i","l","e","d","."," ","L","a","s","t"," ","e","r","r","o","r",":"," ">> \o lastError.message)

\* ------------------------------------------------------------------------
\* collaborators of the orchestrator
\* ------------------------------------------------------------------------

\* targets.ts is not part of the sources: the normalized target is the
\* trimmed raw target without its "chat:" prefix, absent when that is empty
normalizeFeishuTarget(raw) ==
    LET trimmed == Trim(raw)
        id == IF StartsWith(ToLowerCase(trimmed), <<"c","h","a","t",":">>)
              THEN Trim(SubSeq(trimmed, 6, Len(trimmed)))
              ELSE trimmed
    IN  IF id = <<>> THEN Undefined ELSE id

\* policy.ts is not part of the sources: the group's entry of
\* channels.feishu.groups; groupConfig?.webhookUrl is absent without an entry
resolveFeishuGroupConfig(feishuCfg, groupId) ==
    IF groupId \in DOMAIN feishuCfg.groups
    THEN feishuCfg.groups[groupId]
    ELSE [webhookUrl |-> Undefined]

\* path.extname (posix) applied to the media reference
extname(p) ==
    LET notSlash == {i \in 1..Len(p) : p[i] # "/"}
        end == IF notSlash = {} THEN 0 ELSE CHOOSE i \in notSlash : \A j \in notSlash : j <= i
        slashes == {i \in 1..end : p[i] = "/"}
        startPart == IF slashes = {} THEN 1
                     ELSE (CHOOSE i \in slashes : \A j \in slashes : j <= i) + 1
        dots == {i \in startPart..end : p[i] = "."}
        startDot == IF dots = {} THEN 0 ELSE CHOOSE i \in dots : \A j \in dots : j <= i
    IN  IF \/ startDot = 0
           \/ startDot = startPart
           \/ (startDot = end /\ startDot = startPart + 1 /\ p[startPart] = ".")
        THEN <<>>
        ELSE SubSeq(p, startDot, end)

ImageExtensions ==
    { <<".","j","p","g">>, <<".","j","p","e","g">>, <<".","p","n","g">>, <<".","g","i","f">>, <<".","w","e","b","p">>, <<".","b","m","p">>, <<".","i","c","o">>, <<".","t","i","f","f">> }

\* the classification, were every reference with an extension an image
isImage_AnyExtension(ref) == extname(ref) # <<>>

isImage(ref) == ToLowerCase(extname(ref)) \in ImageExtensions

isLocalPath(ref) ==
    \/ StartsWith(ref, <<"/">>)
    \/ StartsWith(ref, <<"~">>)
    \/ (Len(ref) >= 2 /\ IsLetter(ref[1]) /\ ref[2] = ":")

ResolvedFilePath(ref, homeDir) ==
    IF StartsWith(ref, <<"~">>)
    THEN ReplaceFirst(ref, <<"~">>, IF homeDir = Undefined THEN <<>> ELSE homeDir)
    ELSE ReplaceFirst(ref, <<"f","i","l","e",":","/","/">>, <<>>)

\* message texts of the fallback chain
Paperclip == <<"<paperclip>">>

PlainLinkText(ref) == Paperclip \o <<" ">> \o ref

HostLinkText(url) == <<"<camera>", " ", "<image-link-label>">> \o url

LimitedNotice == <<"<warning>", " ", "<image-upload-limited-cannot-send-image-for-now>">>

LimitedText(ref) == LimitedNotice \o <<"\n", "\n", "<image-path-label>">> \o ref

\* the replacement text, were the upload-limited branch missing
FallbackText_NoLimitedNotice(url, quota, ref) ==
    IF Truthy(url) THEN HostLinkText(url) ELSE PlainLinkText(ref)

FallbackText(url, quota, ref) ==
    IF Truthy(url) THEN HostLinkText(url)
    ELSE IF quota THEN LimitedText(ref)
    ELSE PlainLinkText(ref)

WebhookSent == <<"w","e","b","h","o","o","k","-","s","e","n","t">>

WebhookSentResult_RawTarget(id) == [messageId |-> WebhookSent, chatId |-> <<"c","h","a","t",":">> \o id]

\* return { messageId: "webhook-sent", chatId }
WebhookSentResult(id) == [messageId |-> WebhookSent, chatId |-> id]

NoResult == [messageId |-> <<>>, chatId |-> <<>>]

ConfigMissingError(cause, id) ==
    MkError(<<"F","e","i","s","h","u"," ","A","P","I"," ","q","u","o","t","a"," ","e","x","c","e","e","d","e","d"," ","(">> \o ErrorString(cause)
            \o <<")","."," ","N","o"," ","w","e","b","h","o","o","k"," ","c","o","n","f","i","g","u","r","e","d"," ","f","o","r"," ","f","a","l","l","b","a","c","k","."," ">>
            \o <<"A","d","d"," ","w","e","b","h","o","o","k","U","r","l"," ","t","o"," ","c","h","a","n","n","e","l","s",".","f","e","i","s","h","u",".","g","r","o","u","p","s","[","\"">> \o id
            \o <<"\"","]",".","w","e","b","h","o","o","k","U","r","l"," ","i","n"," ","c","o","n","f","i","g",".">>)

\* ------------------------------------------------------------------------
\* requests and outcomes of the external calls
\* ------------------------------------------------------------------------

RawTargets == { <<"c","h","a","t",":","o","c","_","1">>, <<"o","c","_","2">>, <<"o","c","_","9"," ">>, <<" ">> }

MediaRefs == { <<"/","a",".","p","n","g">>, <<"~","/","b",".","J","P","G">>, <<"h","t","t","p",":","/","/","c","/","d",".","w","e","b","p">>, <<"/","e",".","p","d","f">>, <<"/",".","p","n","g">> }

Texts == { Undefined, <<" ">>, <<"h","i">> }

HomeDirs == { Undefined, <<"/","h">> }

Hook1 == <<"h","t","t","p","s",":","/","/","h","o","o","k","/","1">>

HookRaw == <<"h","t","t","p","s",":","/","/","h","o","o","k","/","r","a","w">>

GroupsWithHooks ==
    (<<"o","c","_","1">> :> [webhookUrl |-> Hook1]) @@
    (<<"o","c","_","2">> :> [webhookUrl |-> <<>>]) @@
    (<<"c","h","a","t",":","o","c","_","1">> :> [webhookUrl |-> HookRaw]) @@
    (<<"o","c","_","9"," ">> :> [webhookUrl |-> HookRaw])

Configs ==
    { [feishu |-> FALSE, groups |-> GroupsWithHooks],
      [feishu |-> TRUE, groups |-> GroupsWithHooks] }

Err429 == MkError(<<"s","t","a","t","u","s"," ","c","o","d","e"," ","4","2","9">>)

ErrNotFound == MkError(<<"n","o","t"," ","f","o","u","n","d">>)

ErrFetch == [name |-> <<"T","y","p","e","E","r","r","o","r">>, message |-> <<"f","e","t","c","h"," ","f","a","i","l","e","d">>]

ErrSocket == [name |-> <<"E","r","r","o","r">>, message |-> <<"s","o","c","k","e","t"," ","h","a","n","g"," ","u","p">>]

\* errors the primary API client throws
ApiErrors == { Err429, ErrNotFound }

PrimaryResults(id) == { [messageId |-> m, chatId |-> id] : m \in { <<"o","m","_","1">>, <<"o","m","_","2">> } }

TextResult(id) == [messageId |-> <<"o","m","_","t">>, chatId |-> id]

ImageKeys == { <<"i","m","g","_","k">> }

TheBuffer == <<"<bytes>">>

FetchResponses ==
    { [threw |-> NoError, status |-> 200],
      [threw |-> NoError, status |-> 404],
      [threw |-> ErrFetch, status |-> 0] }

WebhookResponses ==
    { [threw |-> NoError, status |-> 200, statusText |-> <<"O","K">>, code |-> 0, msg |-> <<"s","u","c","c","e","s","s">>],
      [threw |-> NoError, status |-> 429, statusText |-> <<"T","o","o"," ","M","a","n","y"," ","R","e","q","u","e","s","t","s">>, code |-> 0, msg |-> <<>>],
      [threw |-> NoError, status |-> 200, statusText |-> <<"O","K">>, code |-> 19024, msg |-> <<>>],
      [threw |-> NoError, status |-> 200, statusText |-> <<"O","K">>, code |-> 9499, msg |-> <<"b","a","d"," ","r","e","q","u","e","s","t">>],
      [threw |-> ErrSocket, status |-> 0, statusText |-> <<>>, code |-> 0, msg |-> <<>>] }

HostResponses ==
    { [threw |-> NoError, status |-> 200, body |-> <<"h","t","t","p","s",":","/","/","0","x","0",".","s","t","/","a","b","c",".","p","n","g">>],
      [threw |-> NoError, status |-> 200, body |-> <<" ","h","t","t","p","s",":","/","/","h","/","x","\n">>],
      [threw |-> NoError, status |-> 200, body |-> <<"N","o"," ","f","i","l","e","s">>],
      [threw |-> NoError, status |-> 503, body |-> <<"b","u","s","y">>],
      [threw |-> ErrFetch, status |-> 0, body |-> <<>>] }

\* ------------------------------------------------------------------------
\* state
\* ------------------------------------------------------------------------

VARIABLES
    cfg, to, text, mediaUrl, home,   \* the request and process.env.HOME
    fpc, fret,                       \* feishuOutbound.sendMedia: position, outcome
    pc, ret,                         \* sendMediaFeishuWithFallback: position, outcome
    chatId, error, webhookUrl,       \* its locals
    buffer, imageKey, imageUrl, isQuotaErr, uploadError, outerError,
    svc, lastError, hostError,       \* uploadImageToHost: loop index, lastError; its failure
    calls,                           \* every external call made so far, in order
    posts,                           \* every webhook POST made so far, in order
    sentTypingIndicators,            \* the module-level Set of the typing tracker
    tasks,                           \* running addTypingIndicator / removeTypingIndicator calls
    events,                          \* what the typing tracker's calls did, in order
    probes                           \* the errors given to isQuotaError, with its answers

reqVars == <<cfg, to, text, mediaUrl, home>>

facadeVars == <<fpc, fret>>

localVars == <<chatId, error, webhookUrl, buffer, imageKey, imageUrl,
               isQuotaErr, uploadError, outerError>>

hostVars == <<svc, lastError, hostError>>

typingVars == <<sentTypingIndicators, tasks, events>>

pipelineVars == <<reqVars, facadeVars, pc, ret, localVars, hostVars, calls, posts>>

vars == <<pipelineVars, typingVars, probes>>

NoRet == [kind |-> "none", result |-> NoResult, error |-> NoError]

Returned(r) == [kind |-> "return", result |-> r, error |-> NoError]

Raised(e) == [kind |-> "throw", result |-> NoResult, error |-> e]

\* one external call: what was called, with what, whether it succeeded, and
\* what came back (the id, key or URL returned, or String(error))
Call(op, arg, out) ==
    [op |-> op, arg |-> arg, ok |-> out.error = NoError,
     out |-> IF out.error = NoError THEN out.value ELSE ErrorString(out.error)]

Ok(value) == [error |-> NoError, value |-> value]

Failed(e) == [error |-> e, value |-> <<>>]

\* { channel: "feishu", ...result }
WithChannel(r) == [channel |-> "feishu", messageId |-> r.messageId, chatId |-> r.chatId]

NoFacadeRet == [kind |-> "none", result |-> [channel |-> "", messageId |-> <<>>, chatId |-> <<>>],
                error |-> NoError]

FacadeReturned(r) == [NoFacadeRet EXCEPT !.kind = "return", !.result = WithChannel(r)]

FacadeRaised(e) == [NoFacadeRet EXCEPT !.kind = "throw", !.error = e]

\* ------------------------------------------------------------------------
\* Typing indicator tracker (part_000): values and inputs
\* ------------------------------------------------------------------------

TYPING_EMOJI == <<"T","y","p","i","n","g">>

Null == <<"#null">>

\* the acknowledgment glyph of line 73
Eyes == <<"<eyes>">>

\* { messageId, reactionId, usedWebhook }; usedWebhook is absent unless true
TypingIndicatorState(messageId, reactionId, usedWebhook) ==
    [messageId |-> messageId, reactionId |-> reactionId, usedWebhook |-> usedWebhook]

NoState == TypingIndicatorState(Undefined, Null, FALSE)

MessageIds == { <<"o","m","_","a">>, <<"o","m","_","b">> }

ChatIds == { Undefined, <<"c","h","a","t",":","o","c","_","1">>, <<"o","c","_","2">>, <<" ">> }

\* what client.im.messageReaction.create resolves with, or throws
ReactionResponses ==
    { [threw |-> NoError, data |-> [reaction_id |-> <<"r","_","1">>]],
      [threw |-> NoError, data |-> [reaction_id |-> Undefined]],
      [threw |-> Err429, data |-> [reaction_id |-> Undefined]],
      [threw |-> ErrNotFound, data |-> [reaction_id |-> Undefined]] }

\* what client.im.messageReaction.delete throws, NoError when it resolves
DeleteOutcomes == { NoError, Err429, ErrNotFound }

\* calls of the tracker that may be in flight at once, and calls made in all
MaxConcurrent == 2

MaxInvocations == 3

Slots == 1..MaxConcurrent

IdleTask ==
    [pc |-> "idle", messageId |-> Undefined, chatId |-> Undefined,
     webhookUrl |-> Undefined, state |-> NoState]

\* one step of a tracker call: its start, an external call it made and how
\* that ended, or its completion with the state it returned
Event(p, kind, messageId, arg, ok, out, state) ==
    [task |-> p, kind |-> kind, messageId |-> messageId, arg |-> arg,
     ok |-> ok, out |-> out, state |-> state]

\* a call was made: addTypingIndicator for a message id, or
\* removeTypingIndicator with a state
Started(kind, p, messageId, state) == Event(p, kind, messageId, <<>>, TRUE, <<>>, state)

Completed(kind, p, state) == Event(p, kind, state.messageId, <<>>, TRUE, <<>>, state)

TypingStart ==
    /\ sentTypingIndicators = {}
    /\ tasks = [p \in Slots |-> IdleTask]
    /\ events = <<>>
    /\ probes = <<>>

\* ------------------------------------------------------------------------
\* Quota classifier (webhook.ts): the errors it is asked about
\* ------------------------------------------------------------------------

\* the name of the error; a thrown string has none
ErrorNames == { <<>>, <<"E","r","r","o","r">>, <<"Q","u","o","t","a","E","x","c","e","e","d","e","d","E","r","r","o","r">> }

ErrorMessages ==
    { <<>>, <<"n","o","t"," ","f","o","u","n","d">>, <<"s","t","a","t","u","s"," ","c","o","d","e"," ","4","2","9">>, <<"c","o","d","e"," ","9","9","9","9","1","4","0","3">>, <<"c","o","d","e"," ","9","9","9","9","1","4","0">>,
      <<"Q","u","o","t","a"," ","e","x","c","e","e","d","e","d">>, <<"q","u","o","t"," ","a">>,
      <<"R","a","t","e"," ","L","i","m","i","t"," ","r","e","a","c","h","e","d">>, <<"r","a","t","e"," ","l","i","m","i","t">>, <<"r","a","t","e","l","i","m","i","t">> }

\* a numeric code carried by the error object next to its message
ErrorCodes == { 0, 429 }

ErrorInputs ==
    { [name |-> n, message |-> m, code |-> c] :
         n \in ErrorNames, m \in ErrorMessages, c \in ErrorCodes }

\* calls of isQuotaError followed
MaxProbes == 2

\* no send has started
PipelineStart ==
    /\ fpc = "start"
    /\ fret = NoFacadeRet
    /\ pc = "idle"
    /\ ret = NoRet
    /\ chatId = Undefined
    /\ error = NoError
    /\ webhookUrl = Undefined
    /\ buffer = <<>>
    /\ imageKey = Undefined
    /\ imageUrl = Undefined
    /\ isQuotaErr = FALSE
    /\ uploadError = NoError
    /\ outerError = NoError
    /\ svc = 1
    /\ lastError = NoError
    /\ hostError = NoError
    /\ calls = <<>>
    /\ posts = <<>>

Init ==
    /\ cfg \in Configs
    /\ to \in RawTargets
    /\ text \in Texts
    /\ mediaUrl \in MediaRefs \cup {Undefined}
    /\ home \in HomeDirs
    /\ PipelineStart
    /\ TypingStart

\* ------------------------------------------------------------------------
\* outbound.ts: feishuOutbound.sendMedia
\* ------------------------------------------------------------------------

\* sendMessageFeishuWithFallback (send.ts, not part of the sources) resolves
\* with a send result or rejects
TextOutcomes ==
    { [error |-> NoError, result |-> TextResult(normalizeFeishuTarget(to)),
       value |-> TextResult(normalizeFeishuTarget(to)).messageId] }
    \cup { [error |-> e, result |-> NoResult, value |-> <<>>] : e \in ApiErrors }

FacadeOutcome_SwallowsFailure(out) == FacadeReturned(out.result)

\* return await sendMessageFeishuWithFallback(...): its result with the
\* channel added, or its rejection
FacadeOutcome(out) ==
    IF out.error = NoError THEN FacadeReturned(out.result) ELSE FacadeRaised(out.error)

\* lines 16-22: the text send, then the choice between media and text-only
FacadeSendText ==
    /\ fpc = "start"
    /\ IF text # Undefined /\ Trim(text) # <<>>
       THEN \E out \in TextOutcomes :
              /\ calls' = Append(calls, Call("sendMessageFeishuWithFallback", text, out))
              /\ IF out.error # NoError
                 THEN fpc' = "done" /\ fret' = FacadeRaised(out.error)
                 ELSE /\ fpc' = (IF Truthy(mediaUrl) THEN "media" ELSE "text")
                      /\ fret' = fret
       ELSE /\ calls' = calls
            /\ fpc' = (IF Truthy(mediaUrl) THEN "media" ELSE "text")
            /\ fret' = fret
    /\ UNCHANGED <<probes, typingVars, reqVars, pc, ret, localVars, hostVars, posts>>

\* line 24: the call of sendMediaFeishuWithFallback
FacadeCallMedia ==
    /\ fpc = "media"
    /\ pc = "idle"
    /\ fpc' = "awaitMedia"
    /\ pc' = "start"
    /\ UNCHANGED <<probes, typingVars, reqVars, fret, ret, localVars, hostVars, calls, posts>>

\* lines 25-33: the media chain has settled
FacadeMediaSettled ==
    /\ fpc = "awaitMedia"
    /\ pc = "done"
    /\ IF ret.kind = "return"
       THEN /\ fret' = FacadeReturned(ret.result)
            /\ calls' = calls
       ELSE \E out \in TextOutcomes :
              /\ calls' = Append(calls, Call("sendMessageFeishuWithFallback",
                                             PlainLinkText(mediaUrl), out))
              /\ fret' = FacadeOutcome(out)
    /\ fpc' = "done"
    /\ UNCHANGED <<probes, typingVars, reqVars, pc, ret, localVars, hostVars, posts>>

\* lines 36-38: no media URL
FacadeTextOnly ==
    /\ fpc = "text"
    /\ \E out \in TextOutcomes :
         /\ calls' = Append(calls, Call("sendMessageFeishuWithFallback",
                                        IF text = Undefined THEN <<>> ELSE text, out))
         /\ fret' = FacadeOutcome(out)
    /\ fpc' = "done"
    /\ UNCHANGED <<probes, typingVars, reqVars, pc, ret, localVars, hostVars, posts>>

\* ------------------------------------------------------------------------
\* send-media-fallback.ts: sendMediaFeishuWithFallback
\* ------------------------------------------------------------------------

PrimaryOutcomes(id) ==
    { [error |-> NoError, result |-> r, value |-> r.messageId] : r \in PrimaryResults(id) }
    \cup { [error |-> e, result |-> NoResult, value |-> <<>>] : e \in ApiErrors }

UploadOutcomes ==
    { [error |-> NoError, imageKey |-> k, value |-> k] : k \in ImageKeys }
    \cup { [error |-> e, imageKey |-> Undefined, value |-> <<>>] : e \in ApiErrors }

\* the catch of the primary send, were it to fall back on every error
AfterPrimaryError_AnyError(e, id) ==
    LET url == resolveFeishuGroupConfig(cfg, id).webhookUrl IN
    IF ~Truthy(url)
    THEN [pc |-> "done", ret |-> Raised(ConfigMissingError(e, id)), webhookUrl |-> url]
    ELSE [pc |-> IF isImage(mediaUrl) THEN "acquire" ELSE "linkPost",
          ret |-> NoRet, webhookUrl |-> url]

\* the catch of the primary send, were it to look the webhook up under the
\* raw target
AfterPrimaryError_RawTarget(e, id) ==
    IF ~isQuotaError(e)
    THEN [pc |-> "done", ret |-> Raised(e), webhookUrl |-> Undefined]
    ELSE LET url == resolveFeishuGroupConfig(cfg, to).webhookUrl IN
         IF ~Truthy(url)
         THEN [pc |-> "done", ret |-> Raised(ConfigMissingError(e, id)), webhookUrl |-> url]
         ELSE [pc |-> IF isImage(mediaUrl) THEN "acquire" ELSE "linkPost",
               ret |-> NoRet, webhookUrl |-> url]

\* lines 34-74: the catch of the primary send, up to the next await
AfterPrimaryError(e, id) ==
    IF ~isQuotaError(e)
    THEN [pc |-> "done", ret |-> Raised(e), webhookUrl |-> Undefined]
    ELSE LET url == resolveFeishuGroupConfig(cfg, id).webhookUrl IN
         IF ~Truthy(url)
         THEN [pc |-> "done", ret |-> Raised(ConfigMissingError(e, id)), webhookUrl |-> url]
         ELSE [pc |-> IF isImage(mediaUrl) THEN "acquire" ELSE "linkPost",
               ret |-> NoRet, webhookUrl |-> url]

\* lines 20-33: the guards and the primary media send
SendMediaPrimary ==
    /\ pc = "start"
    /\ IF ~cfg.feishu
       THEN /\ pc' = "done"
            /\ ret' = Raised(MkError(<<"F","e","i","s","h","u"," ","c","h","a","n","n","e","l"," ","n","o","t"," ","c","o","n","f","i","g","u","r","e","d">>))
            /\ UNCHANGED <<chatId, error, webhookUrl, calls>>
       ELSE LET id == normalizeFeishuTarget(to) IN
            IF ~Truthy(id)
            THEN /\ pc' = "done"
                 /\ ret' = Raised(MkError(<<"I","n","v","a","l","i","d"," ","F","e","i","s","h","u"," ","t","a","r","g","e","t",":"," ">> \o to))
                 /\ UNCHANGED <<chatId, error, webhookUrl, calls>>
            ELSE \E out \in PrimaryOutcomes(id) :
                   /\ chatId' = id
                   /\ calls' = Append(calls, Call("sendMediaFeishu", mediaUrl, out))
                   /\ IF out.error = NoError
                      THEN /\ pc' = "done"
                           /\ ret' = Returned(out.result)
                           /\ UNCHANGED <<error, webhookUrl>>
                      ELSE LET next == AfterPrimaryError(out.error, id) IN
                           /\ error' = out.error
                           /\ pc' = next.pc
                           /\ ret' = next.ret
                           /\ webhookUrl' = next.webhookUrl
    /\ UNCHANGED <<probes, typingVars, reqVars, facadeVars, buffer, imageKey, imageUrl, isQuotaErr,
                   uploadError, outerError, hostVars, posts>>

WebhookParams(url, txt, key) ==
    [webhookUrl |-> url, text |-> txt, mentions |-> <<>>, imageKey |-> key]

\* one call of sendViaWebhook, made at the given line of
\* send-media-fallback.ts, that receives the given response
PostViaWebhook(line, params, response) ==
    /\ posts' = Append(posts, [line |-> line,
                               webhookUrl |-> params.webhookUrl,
                               payload |-> WebhookPayload(params),
                               error |-> WebhookSendError(response)])
    /\ calls' = Append(calls, Call("sendViaWebhook", params.text,
                                   IF WebhookSendError(response) = NoError
                                   THEN Ok(<<>>)
                                   ELSE Failed(WebhookSendError(response))))

\* lines 60-74: a non-image reference goes out as a link
SendLinkViaWebhook ==
    /\ pc = "linkPost"
    /\ \E response \in WebhookResponses :
         LET e == WebhookSendError(response) IN
         /\ PostViaWebhook(64, WebhookParams(webhookUrl, PlainLinkText(mediaUrl), Undefined),
                           response)
         /\ ret' = IF e = NoError THEN Returned(WebhookSentResult(chatId)) ELSE Raised(e)
    /\ pc' = "done"
    /\ UNCHANGED <<probes, typingVars, reqVars, facadeVars, localVars, hostVars>>

\* the outer catch, were it to re-raise instead of sending the link
OuterCatch_Rethrow(e) == [pc |-> "done", ret |-> Raised(e), outerError |-> e]

\* lines 184-189: the outer catch of the image branch
OuterCatch(e) == [pc |-> "outerPost", ret |-> NoRet, outerError |-> e]

\* lines 77-110: download the image to a buffer
AcquireMedia ==
    /\ pc = "acquire"
    /\ IF isLocalPath(mediaUrl)
       THEN \E exists \in BOOLEAN :
              LET filePath == ResolvedFilePath(mediaUrl, home)
                  e == MkError(<<"L","o","c","a","l"," ","f","i","l","e"," ","n","o","t"," ","f","o","u","n","d",":"," ">> \o filePath)
              IN
              /\ calls' = Append(calls, Call("fs.existsSync", filePath,
                                             IF exists THEN Ok(TheBuffer) ELSE Failed(e)))
              /\ IF exists
                 THEN /\ buffer' = TheBuffer
                      /\ pc' = "upload"
                      /\ UNCHANGED <<ret, outerError>>
                 ELSE /\ buffer' = buffer
                      /\ pc' = OuterCatch(e).pc
                      /\ ret' = OuterCatch(e).ret
                      /\ outerError' = OuterCatch(e).outerError
       ELSE \E response \in FetchResponses :
              LET e == IF response.threw # NoError THEN response.threw
                       ELSE IF ~ResponseOk(response.status)
                       THEN MkError(<<"F","a","i","l","e","d"," ","t","o"," ","f","e","t","c","h"," ","i","m","a","g","e"," ","f","r","o","m"," ","U","R","L",":"," ">>
                                    \o IntToStr(response.status))
                       ELSE NoError
              IN
              /\ calls' = Append(calls, Call("fetch", mediaUrl,
                                             IF e = NoError THEN Ok(TheBuffer) ELSE Failed(e)))
              /\ IF e = NoError
                 THEN /\ buffer' = TheBuffer
                      /\ pc' = "upload"
                      /\ UNCHANGED <<ret, outerError>>
                 ELSE /\ buffer' = buffer
                      /\ pc' = OuterCatch(e).pc
                      /\ ret' = OuterCatch(e).ret
                      /\ outerError' = OuterCatch(e).outerError
    /\ UNCHANGED <<probes, typingVars, reqVars, facadeVars, chatId, error, webhookUrl, imageKey,
                   imageUrl, isQuotaErr, uploadError, hostVars, posts>>

\* the catch around the upload, were it to try the image hosts on every error
UploadCatch_AlwaysHost(e) ==
    [pc |-> "host", isQuotaErr |-> isQuotaError(e), uploadError |-> e]

\* lines 136-157: the catch around the upload and the image send
UploadCatch(e) ==
    [pc |-> IF isQuotaError(e) THEN "host" ELSE "fallbackPost",
     isQuotaErr |-> isQuotaError(e),
     uploadError |-> e]

\* lines 118-119: upload the buffer to Feishu
UploadImage ==
    /\ pc = "upload"
    /\ \E out \in UploadOutcomes :
         /\ calls' = Append(calls, Call("uploadImageFeishu", buffer, out))
         /\ IF out.error = NoError
            THEN /\ imageKey' = out.imageKey
                 /\ pc' = "imagePost"
                 /\ UNCHANGED <<isQuotaErr, uploadError>>
            ELSE LET c == UploadCatch(out.error) IN
                 /\ imageKey' = imageKey
                 /\ pc' = c.pc
                 /\ isQuotaErr' = c.isQuotaErr
                 /\ uploadError' = c.uploadError
    /\ UNCHANGED <<probes, typingVars, reqVars, facadeVars, ret, chatId, error, webhookUrl, buffer,
                   imageUrl, outerError, hostVars, posts>>

\* lines 122-135: send the uploaded image through the webhook
SendImageViaWebhook ==
    /\ pc = "imagePost"
    /\ \E response \in WebhookResponses :
         LET e == WebhookSendError(response) IN
         /\ PostViaWebhook(124, WebhookParams(webhookUrl, <<>>, imageKey), response)
         /\ IF e = NoError
            THEN /\ pc' = "done"
                 /\ ret' = Returned(WebhookSentResult(chatId))
                 /\ UNCHANGED <<isQuotaErr, uploadError>>
            ELSE LET c == UploadCatch(e) IN
                 /\ pc' = c.pc
                 /\ ret' = ret
                 /\ isQuotaErr' = c.isQuotaErr
                 /\ uploadError' = c.uploadError
    /\ UNCHANGED <<probes, typingVars, reqVars, facadeVars, chatId, error, webhookUrl, buffer, imageKey,
                   imageUrl, outerError, hostVars>>

\* the adapter loop, were a failed adapter tried again instead of the next one
HostStep_RetrySame(i, r) ==
    IF r.ok
    THEN [pc |-> "fallbackPost", svc |-> i, imageUrl |-> r.url,
          lastError |-> lastError, hostError |-> NoError]
    ELSE IF lastError = NoError
    THEN [pc |-> "host", svc |-> i, imageUrl |-> Undefined,
          lastError |-> r.error, hostError |-> NoError]
    ELSE [pc |-> "fallbackPost", svc |-> i, imageUrl |-> Undefined,
          lastError |-> r.error, hostError |-> AllHostsFailedError(r.error)]

\* image-host.ts lines 83-97: the outcome r of the adapter at index i
HostStep(i, r) ==
    IF r.ok
    THEN [pc |-> "fallbackPost", svc |-> i, imageUrl |-> r.url,
          lastError |-> lastError, hostError |-> NoError]
    ELSE IF i < Len(services)
    THEN [pc |-> "host", svc |-> i + 1, imageUrl |-> Undefined,
          lastError |-> r.error, hostError |-> NoError]
    ELSE [pc |-> "fallbackPost", svc |-> i, imageUrl |-> Undefined,
          lastError |-> r.error, hostError |-> AllHostsFailedError(r.error)]

\* lines 148-156 and image-host.ts lines 75-98: one adapter of uploadImageToHost
UploadToHost ==
    /\ pc = "host"
    /\ \E response \in HostResponses :
         LET r == ServiceUpload(services[svc], response)
             next == HostStep(svc, r)
         IN
         /\ calls' = Append(calls, Call(services[svc], buffer,
                                        IF r.ok THEN Ok(r.url) ELSE Failed(r.error)))
         /\ pc' = next.pc
         /\ svc' = next.svc
         /\ imageUrl' = next.imageUrl
         /\ lastError' = next.lastError
         /\ hostError' = next.hostError
    /\ UNCHANGED <<probes, typingVars, reqVars, facadeVars, ret, chatId, error, webhookUrl, buffer,
                   imageKey, isQuotaErr, uploadError, outerError, posts>>

\* lines 159-183: the text that replaces the image
SendFallbackText ==
    /\ pc = "fallbackPost"
    /\ \E response \in WebhookResponses :
         LET e == WebhookSendError(response) IN
         /\ PostViaWebhook(173, WebhookParams(webhookUrl,
                                              FallbackText(imageUrl, isQuotaErr, mediaUrl),
                                              Undefined), response)
         /\ IF e = NoError
            THEN /\ pc' = "done"
                 /\ ret' = Returned(WebhookSentResult(chatId))
                 /\ outerError' = outerError
            ELSE /\ pc' = OuterCatch(e).pc
                 /\ ret' = OuterCatch(e).ret
                 /\ outerError' = OuterCatch(e).outerError
    /\ UNCHANGED <<probes, typingVars, reqVars, facadeVars, chatId, error, webhookUrl, buffer, imageKey,
                   imageUrl, isQuotaErr, uploadError, hostVars>>

\* lines 184-200: the outer catch
SendOuterLink ==
    /\ pc = "outerPost"
    /\ \E response \in WebhookResponses :
         LET e == WebhookSendError(response) IN
         /\ PostViaWebhook(190, WebhookParams(webhookUrl, PlainLinkText(mediaUrl), Undefined),
                           response)
         /\ ret' = IF e = NoError THEN Returned(WebhookSentResult(chatId)) ELSE Raised(e)
    /\ pc' = "done"
    /\ UNCHANGED <<probes, typingVars, reqVars, facadeVars, localVars, hostVars>>

Next ==
    \/ FacadeSendText
    \/ FacadeCallMedia
    \/ FacadeMediaSettled
    \/ FacadeTextOnly
    \/ SendMediaPrimary
    \/ SendLinkViaWebhook
    \/ AcquireMedia
    \/ UploadImage
    \/ SendImageViaWebhook
    \/ UploadToHost
    \/ SendFallbackText
    \/ SendOuterLink

Spec == Init /\ [][Next]_vars

\* ------------------------------------------------------------------------
\* Typing indicator tracker (part_000): addTypingIndicator and
\* removeTypingIndicator.  A call runs without interruption up to its next
\* await; the calls in flight interleave at their awaits.
\* ------------------------------------------------------------------------

Invocations == Cardinality({i \in 1..Len(events) : events[i].kind \in {"add", "remove"}})

\* the states addTypingIndicator has handed to its callers so far
ReturnedStates == {events[i].state : i \in {j \in 1..Len(events) : events[j].kind = "add.return"}}

\* a new call runs in the first slot that is free
FreeSlot(p) == tasks[p].pc = "idle" /\ \A q \in 1..(p - 1) : tasks[q].pc # "idle"

\* line 55: (response as any)?.data?.reaction_id ?? null
ReactionIdOf(response) ==
    IF response.data.reaction_id = Undefined THEN Null ELSE response.data.reaction_id

\* lines 59-68: the webhook the catch block falls back to, Undefined when
\* it does not fall back
AddCatch(err, chat, feishuCfg) ==
    IF isQuotaError(err) /\ Truthy(chat)
    THEN LET normalizedChatId == normalizeFeishuTarget(chat) IN
         IF normalizedChatId # Undefined
         THEN resolveFeishuGroupConfig(feishuCfg, normalizedChatId).webhookUrl
         ELSE Undefined
    ELSE Undefined

AlreadySent_Never(messageId) == FALSE

\* line 34: sentTypingIndicators.has(messageId)
AlreadySent(messageId) == messageId \in sentTypingIndicators

\* lines 26-53: the registry check, the configuration check, and the
\* reaction-create request going out
CallAdd(p) ==
    /\ FreeSlot(p)
    /\ Invocations < MaxInvocations
    /\ \E messageId \in MessageIds, chat \in ChatIds :
        IF AlreadySent(messageId) \/ ~cfg.feishu
        THEN /\ events' = events \o
                    << Started("add", p, messageId, NoState),
                       Completed("add.return", p, TypingIndicatorState(messageId, Null, FALSE)) >>
             /\ UNCHANGED tasks
        ELSE /\ tasks' = [tasks EXCEPT ![p] =
                    [IdleTask EXCEPT !.pc = "create", !.messageId = messageId,
                                     !.chatId = chat]]
             /\ events' = Append(events, Started("add", p, messageId, NoState))
    /\ UNCHANGED <<probes, sentTypingIndicators, pipelineVars>>

CreateSent_NotRecorded(messageId) == sentTypingIndicators

\* line 57: sentTypingIndicators.add(messageId)
CreateSent(messageId) == sentTypingIndicators \cup {messageId}

\* lines 48-68 and 82-90: the reaction-create request settles
CreateSettled(p) ==
    /\ tasks[p].pc = "create"
    /\ \E response \in ReactionResponses :
        LET messageId == tasks[p].messageId
            err == response.threw
            hook == AddCatch(err, tasks[p].chatId, cfg)
            call == Event(p, "create", messageId, TYPING_EMOJI, err = NoError,
                          IF err = NoError THEN ReactionIdOf(response) ELSE ErrorString(err),
                          NoState)
        IN  IF err = NoError
            THEN /\ sentTypingIndicators' = CreateSent(messageId)
                 /\ events' = events \o
                        << call, Completed("add.return", p,
                               TypingIndicatorState(messageId, ReactionIdOf(response), FALSE)) >>
                 /\ tasks' = [tasks EXCEPT ![p] = IdleTask]
            ELSE IF Truthy(hook)
            THEN /\ tasks' = [tasks EXCEPT ![p].pc = "webhook", ![p].webhookUrl = hook]
                 /\ events' = Append(events, call)
                 /\ UNCHANGED sentTypingIndicators
            ELSE /\ events' = events \o
                        << call, Completed("add.return", p,
                               TypingIndicatorState(messageId, Null, FALSE)) >>
                 /\ tasks' = [tasks EXCEPT ![p] = IdleTask]
                 /\ UNCHANGED sentTypingIndicators
    /\ UNCHANGED <<probes, pipelineVars>>

AckSent_NotRecorded(messageId) == sentTypingIndicators

\* line 77: sentTypingIndicators.add(messageId)
AckSent(messageId) == sentTypingIndicators \cup {messageId}

\* lines 69-81 and 88-90: the acknowledgment sent through the webhook settles
WebhookSettled(p) ==
    /\ tasks[p].pc = "webhook"
    /\ \E response \in WebhookResponses :
        LET messageId == tasks[p].messageId
            params == WebhookParams(tasks[p].webhookUrl, Eyes, Undefined)
            webhookErr == WebhookSendError(response)
            call == Event(p, "webhook", messageId,
                          WebhookPayload(params).card.elements[1].content,
                          webhookErr = NoError, params.webhookUrl, NoState)
        IN  IF webhookErr = NoError
            THEN /\ sentTypingIndicators' = AckSent(messageId)
                 /\ events' = events \o
                        << call, Completed("add.return", p,
                               TypingIndicatorState(messageId, Null, TRUE)) >>
            ELSE /\ events' = events \o
                        << call, Completed("add.return", p,
                               TypingIndicatorState(messageId, Null, FALSE)) >>
                 /\ UNCHANGED sentTypingIndicators
    /\ tasks' = [tasks EXCEPT ![p] = IdleTask]
    /\ UNCHANGED <<probes, pipelineVars>>

\* line 102: if (!state.reactionId) return
HasReaction(state) == Truthy(state.reactionId) /\ state.reactionId # Null

\* lines 97-115: the checks of removeTypingIndicator and the reaction-delete
\* request going out.  The state is whatever TypingIndicatorState the caller
\* holds: one an earlier add returned, as often as the caller passes it.
CallRemove(p) ==
    /\ FreeSlot(p)
    /\ Invocations < MaxInvocations
    /\ \E state \in ReturnedStates :
        IF ~HasReaction(state) \/ ~cfg.feishu
        THEN /\ events' = events \o
                    << Started("remove", p, state.messageId, state),
                       Completed("remove.return", p, state) >>
             /\ UNCHANGED tasks
        ELSE /\ tasks' = [tasks EXCEPT ![p] =
                    [IdleTask EXCEPT !.pc = "delete", !.state = state]]
             /\ events' = Append(events,
                    Started("remove", p, state.messageId, state))
    /\ UNCHANGED <<probes, sentTypingIndicators, pipelineVars>>

RemoveCatch_Rethrow(err) == IF err = NoError THEN "remove.return" ELSE "remove.throw"

\* lines 109-119: how removeTypingIndicator ends once the request settled
\* with the given error (NoError when it resolved)
RemoveCatch(err) == "remove.return"

RegistryAfterRemove_Forgets(state) == sentTypingIndicators \ {state.messageId}

\* lines 97-120: removeTypingIndicator never touches sentTypingIndicators
RegistryAfterRemove(state) == sentTypingIndicators

\* lines 110-119: the reaction-delete request settles
DeleteSettled(p) ==
    /\ tasks[p].pc = "delete"
    /\ \E err \in DeleteOutcomes :
        events' = events \o
            << Event(p, "delete", tasks[p].state.messageId, tasks[p].state.reactionId,
                     err = NoError,
                     IF err = NoError THEN <<>> ELSE ErrorString(err), NoState),
               Completed(RemoveCatch(err), p, tasks[p].state) >>
    /\ tasks' = [tasks EXCEPT ![p] = IdleTask]
    /\ sentTypingIndicators' = RegistryAfterRemove(tasks[p].state)
    /\ UNCHANGED <<probes, pipelineVars>>

TypingNext ==
    \E p \in Slots :
        \/ CallAdd(p)
        \/ CreateSettled(p)
        \/ WebhookSettled(p)
        \/ CallRemove(p)
        \/ DeleteSettled(p)

\* the tracker on its own: every call is given the process configuration,
\* and no send is in progress
TypingInit ==
    /\ cfg \in Configs
    /\ to = <<"c","h","a","t",":","o","c","_","1">>
    /\ text = Undefined
    /\ mediaUrl = Undefined
    /\ home = Undefined
    /\ PipelineStart
    /\ TypingStart

TypingSpec == TypingInit /\ [][TypingNext]_vars

\* ------------------------------------------------------------------------
\* Quota classifier (webhook.ts) on its own: isQuotaError is asked about one
\* error after another
\* ------------------------------------------------------------------------

\* lines 65-83
Classify ==
    /\ Len(probes) < MaxProbes
    /\ \E e \in ErrorInputs :
          probes' = Append(probes, [error |-> e, result |-> isQuotaError(e)])
    /\ UNCHANGED <<pipelineVars, typingVars>>

ClassifierNext == Classify

ClassifierInit ==
    /\ cfg \in {c \in Configs : c.feishu}
    /\ to = <<"c","h","a","t",":","o","c","_","1">>
    /\ text = Undefined
    /\ mediaUrl = Undefined
    /\ home = Undefined
    /\ PipelineStart
    /\ TypingStart

ClassifierSpec == ClassifierInit /\ [][ClassifierNext]_vars


\* ------------------------------------------------------------------------
\* properties
\* ------------------------------------------------------------------------

CallsOf(ops) == {k \in 1..Len(calls) : calls[k].op \in ops}

PostContent(i) == posts[i].payload.card.elements[1].content

AcquireOps == {"fs.existsSync", "fetch"}

HostOps == {"catbox", "0x0.st"}

FallbackOps == {"sendViaWebhook", "uploadImageFeishu"} \cup AcquireOps \cup HostOps

\* C1: once a webhook URL is resolved for the target, sendMediaFeishuWithFallback
\* never ends, by return or by raise, before a webhook send to that URL was
\* attempted
C1_ExitOnlyAfterWebhookAttempt ==
    (pc = "done" /\ Truthy(webhookUrl)) =>
        /\ Len(posts) >= 1
        /\ \A i \in 1..Len(posts) : posts[i].webhookUrl = webhookUrl

C1_Witness ==
    /\ pc = "done"
    /\ Truthy(webhookUrl)
    /\ ret.kind = "throw"
    /\ outerError # NoError
    /\ Len(posts) >= 1

\* C2: when no send fails, the caller's text reaches
\* sendMessageFeishuWithFallback at most once per sendMedia request
C2_TextSentAtMostOnce ==
    (\A k \in 1..Len(calls) : calls[k].ok) =>
        Cardinality({k \in CallsOf({"sendMessageFeishuWithFallback"}) :
                        calls[k].arg = text}) <= 1

\* C3: a primary send that succeeds, or fails with an error that is no quota
\* error, ends the call: the primary result is returned, or that error
\* re-raised, and no fallback call is ever made
C3_PrimaryTerminal ==
    \A k \in CallsOf({"sendMediaFeishu"}) :
        (calls[k].ok \/ ~isQuotaError(error)) =>
            /\ pc = "done"
            /\ IF calls[k].ok
               THEN /\ ret.kind = "return"
                    /\ ret.result.messageId = calls[k].out
                    /\ ret.result \in PrimaryResults(chatId)
               ELSE /\ ret = Raised(error)
                    /\ ErrorString(ret.error) = calls[k].out
            /\ CallsOf(FallbackOps) = {}
            /\ posts = <<>>
            /\ Cardinality(CallsOf({"sendMediaFeishu"})) = 1

C3_Witness ==
    /\ pc = "done"
    /\ \E k \in CallsOf({"sendMediaFeishu"}) : ~calls[k].ok
    /\ ~isQuotaError(error)
    /\ ret = Raised(ErrNotFound)
    /\ Truthy(resolveFeishuGroupConfig(cfg, normalizeFeishuTarget(to)).webhookUrl)

NormalizedHasWebhook ==
    Truthy(resolveFeishuGroupConfig(cfg, normalizeFeishuTarget(to)).webhookUrl)

\* C4: a quota failure of the primary send without a webhook URL for the
\* normalized target ends the call with an error that names the target and
\* the configuration key; nothing else is called and the primary send is not
\* retried
C4_MissingWebhookTerminal ==
    \A k \in CallsOf({"sendMediaFeishu"}) :
        (~calls[k].ok /\ isQuotaError(error) /\ ~NormalizedHasWebhook) =>
            /\ pc = "done"
            /\ ret.kind = "throw"
            /\ Includes(ret.error.message, normalizeFeishuTarget(to))
            /\ Includes(ret.error.message,
                        <<"c","h","a","n","n","e","l","s",".","f","e","i","s","h","u",".","g","r","o","u","p","s","[","\"">> \o normalizeFeishuTarget(to)
                        \o <<"\"","]",".","w","e","b","h","o","o","k","U","r","l">>)
            /\ CallsOf(FallbackOps) = {}
            /\ posts = <<>>
            /\ Cardinality(CallsOf({"sendMediaFeishu"})) = 1

C4_Witness ==
    /\ pc = "done"
    /\ to = <<"o","c","_","9"," ">>
    /\ \E k \in CallsOf({"sendMediaFeishu"}) : ~calls[k].ok
    /\ isQuotaError(error)
    /\ ~NormalizedHasWebhook
    /\ ret.kind = "throw"

C5_ImageRefs == { <<"/","a",".","p","n","g">>, <<"~","/","b",".","J","P","G">>, <<"h","t","t","p",":","/","/","c","/","d",".","w","e","b","p">> }

C5_OtherRefs == { <<"/","e",".","p","d","f">>, <<"/",".","p","n","g">> }

\* C5: with a webhook resolved, a reference without an image extension goes
\* out as one plain-link webhook message, with no acquisition, upload or host
\* call, and a delivered link returns the webhook-sent result; acquisition,
\* upload and host calls happen for image references only, which do reach
\* the acquisition
C5_OnlyImagesReachUpload ==
    /\ CallsOf(AcquireOps \cup HostOps \cup {"uploadImageFeishu"}) # {}
          => mediaUrl \in C5_ImageRefs
    /\ (pc = "done" /\ Truthy(webhookUrl) /\ mediaUrl \in C5_OtherRefs) =>
          /\ Len(posts) = 1
          /\ PostContent(1) = PlainLinkText(mediaUrl)
          /\ posts[1].error = NoError =>
                ret = Returned([messageId |-> WebhookSent, chatId |-> chatId])
          /\ posts[1].error # NoError => ret = Raised(posts[1].error)
    /\ (pc = "done" /\ Truthy(webhookUrl) /\ mediaUrl \in C5_ImageRefs) =>
          CallsOf(AcquireOps) # {}

C5_Witness ==
    /\ pc = "done"
    /\ Truthy(webhookUrl)
    /\ mediaUrl = <<"/","e",".","p","d","f">>
    /\ Len(posts) = 1
    /\ ret.kind = "return"

\* C6: the webhook message sent after a successful image upload carries the
\* image key that upload returned
C6_ImagePostCarriesImageKey ==
    \A i \in 1..Len(posts) :
        posts[i].line = 124 =>
            /\ Truthy(imageKey)
            /\ Includes(PostContent(i), imageKey)

UploadFailedWithQuota ==
    /\ \E k \in CallsOf({"uploadImageFeishu"}) : ~calls[k].ok
    /\ isQuotaError(uploadError)

HostSuccesses == {k \in CallsOf(HostOps) : calls[k].ok}

\* C7: after a quota failure of the image upload, the text sent through the
\* webhook contains the URL the image host returned, or, when every host
\* failed, the media reference and the upload-limited notice; a delivered
\* text ends the call, and whenever the call returns it returns the
\* webhook-sent result for the normalized target
C7_QuotaUploadFallbackText ==
    UploadFailedWithQuota =>
        /\ \A i \in 1..Len(posts) :
              posts[i].line = 173 =>
                  /\ IF HostSuccesses # {}
                     THEN \A k \in HostSuccesses : Includes(PostContent(i), calls[k].out)
                     ELSE /\ Includes(PostContent(i), mediaUrl)
                          /\ Includes(PostContent(i), LimitedNotice)
                  /\ posts[i].error = NoError => (pc = "done" /\ ret.kind = "return")
        /\ pc = "done" => \E i \in 1..Len(posts) : posts[i].line = 173
        /\ (pc = "done" /\ ret.kind = "return") =>
              ret.result = [messageId |-> WebhookSent, chatId |-> chatId]

C7_Witness ==
    /\ pc = "done"
    /\ UploadFailedWithQuota
    /\ \E k \in CallsOf({"catbox"}) : ~calls[k].ok
    /\ \E k \in CallsOf({"0x0.st"}) : calls[k].ok /\ calls[k].out = <<"h","t","t","p","s",":","/","/","0","x","0",".","s","t","/","a","b","c",".","p","n","g">>
    /\ Len(posts) = 1
    /\ Includes(PostContent(1), <<"h","t","t","p","s",":","/","/","0","x","0",".","s","t","/","a","b","c",".","p","n","g">>)
    /\ ret.kind = "return"

StepFailures == {k \in CallsOf(AcquireOps \cup {"uploadImageFeishu"}) : ~calls[k].ok}

\* C8 as stated: every error of the acquisition or of the image upload ends in
\* a plain-link webhook message and is not what the call raises
C8_EveryStepErrorBecomesPlainLink ==
    (pc = "done" /\ StepFailures # {}) =>
        /\ \E i \in 1..Len(posts) : PostContent(i) = PlainLinkText(mediaUrl)
        /\ \A k \in StepFailures :
              ret.kind = "throw" => ErrorString(ret.error) # calls[k].out

\* C8 amended: an acquisition error and a non-quota upload error are followed
\* at once by a plain-link webhook message; a quota upload error is followed
\* by the image hosts and then by the host-link or upload-limited message;
\* the call never ends on such an error, and what it raises is the failure
\* of its last webhook send
C8_StepErrorsDegrade ==
    \A k \in StepFailures :
        /\ pc = "done" => k < Len(calls)
        /\ k < Len(calls) =>
              IF calls[k].op = "uploadImageFeishu" /\ isQuotaError(uploadError)
              THEN calls[k + 1].op = "catbox"
              ELSE /\ calls[k + 1].op = "sendViaWebhook"
                   /\ calls[k + 1].arg = PlainLinkText(mediaUrl)
        /\ (calls[k].op = "uploadImageFeishu" /\ isQuotaError(uploadError) /\ Len(posts) >= 1) =>
              \/ HostSuccesses # {} /\ PostContent(1) = HostLinkText(imageUrl)
              \/ HostSuccesses = {} /\ PostContent(1) = LimitedText(mediaUrl)
        /\ (pc = "done" /\ ret.kind = "throw") =>
              /\ Len(posts) >= 1
              /\ ret.error = posts[Len(posts)].error
              /\ ErrorString(ret.error) # calls[k].out

C8_Witness ==
    /\ pc = "done"
    /\ \E k \in StepFailures : calls[k].op = "fetch"
    /\ Len(posts) = 1
    /\ PostContent(1) = PlainLinkText(mediaUrl)
    /\ ret.kind = "throw"

\* C9 as stated: within one call of sendMediaFeishuWithFallback the primary
\* media send, the image upload, each image host adapter and the webhook send
\* are each invoked at most once
C9_EachTierAtMostOnce ==
    \A op \in {"sendMediaFeishu", "uploadImageFeishu", "catbox", "0x0.st", "sendViaWebhook"} :
        Cardinality(CallsOf({op})) <= 1

\* C9 amended: the primary media send, the image upload and each image host
\* adapter are invoked at most once per call; the webhook send is invoked at
\* most once at each of its four call sites and at most three times in all,
\* and only the last of these sends can have succeeded
C9_TiersOnceWebhookPerSite ==
    /\ \A op \in {"sendMediaFeishu", "uploadImageFeishu", "catbox", "0x0.st"} :
          Cardinality(CallsOf({op})) <= 1
    /\ \A line \in {64, 124, 173, 190} :
          Cardinality({i \in 1..Len(posts) : posts[i].line = line}) <= 1
    /\ \A i \in 1..Len(posts) : posts[i].line \in {64, 124, 173, 190}
    /\ Len(posts) <= 3
    /\ Len(posts) = Cardinality(CallsOf({"sendViaWebhook"}))
    /\ \A i \in 1..(Len(posts) - 1) : posts[i].error # NoError

C9_Witness ==
    /\ pc = "done"
    /\ Len(posts) = 3
    /\ posts[1].line = 124
    /\ posts[2].line = 173
    /\ posts[3].line = 190
    /\ Cardinality(CallsOf({"catbox"})) = 1
    /\ Cardinality(CallsOf({"0x0.st"})) = 1

C10_Order == << "catbox", "0x0.st" >>

\* C10: the host adapters are called in the order catbox, 0x0.st; an adapter
\* is called only after every earlier one failed and none after a success,
\* whose URL is the result; a failed adapter, an invalid response included,
\* is followed by the next one; the multiplexer fails only when all failed,
\* with an error that quotes the last adapter's failure; a response body
\* that is no https:// URL is an adapter failure
C10_FirstHostSuccessWins ==
    LET H == CallsOf(HostOps)
        last == CHOOSE k \in H : \A j \in H : j <= k
    IN
    /\ Cardinality(H) <= Len(C10_Order)
    /\ \A k \in H : calls[k].op = C10_Order[Cardinality({j \in H : j <= k})]
    /\ \A k \in H : (\E j \in H : j > k) => ~calls[k].ok
    /\ \A k \in H : (~calls[k].ok /\ calls[k].op # "0x0.st" /\ pc # "host") =>
                       \E j \in H : j > k
    /\ \A k \in H : calls[k].ok =>
          /\ imageUrl = calls[k].out
          /\ hostError = NoError
          /\ pc # "host"
    /\ Truthy(imageUrl) => \E k \in H : calls[k].ok
    /\ hostError # NoError =>
          /\ Cardinality(H) = Len(C10_Order)
          /\ \A k \in H : ~calls[k].ok
          /\ calls[last].out = ErrorString(lastError)
          /\ Includes(hostError.message, lastError.message)
    /\ (H # {} /\ pc # "host") => (Truthy(imageUrl) \/ hostError # NoError)
    /\ \A r \in HostResponses : \A n \in HostOps :
          ~StartsWith(Trim(r.body), <<"h","t","t","p","s",":","/","/">>) => ~ServiceUpload(n, r).ok

C10_Witness ==
    /\ pc = "fallbackPost"
    /\ \E k \in CallsOf({"catbox"}) :
          Includes(calls[k].out, <<"c","a","t","b","o","x"," ","u","p","l","o","a","d"," ","f","a","i","l","e","d",":"," ","i","n","v","a","l","i","d"," ","r","e","s","p","o","n","s","e">>)
    /\ \E k \in CallsOf({"0x0.st"}) : calls[k].ok
    /\ imageUrl = <<"h","t","t","p","s",":","/","/","h","/","x">>

\* ------------------------------------------------------------------------
\* Typing indicator tracker: properties
\* ------------------------------------------------------------------------

AddCalls == {i \in 1..Len(events) : events[i].kind = "add"}

RemoveCalls == {i \in 1..Len(events) : events[i].kind = "remove"}

EndKinds == {"add.return", "add.throw", "remove.return", "remove.throw"}

\* the events after the start i of a call at which that call ended
EndsOf(i) ==
    {j \in (i + 1)..Len(events) : events[j].task = events[i].task /\ events[j].kind \in EndKinds}

HasEnded(i) == EndsOf(i) # {}

EndOf(i) == CHOOSE j \in EndsOf(i) : \A k \in EndsOf(i) : j <= k

\* the external calls made by the call that started at i
StepsOf(i) ==
    {k \in (i + 1)..Len(events) :
        /\ events[k].task = events[i].task
        /\ events[k].kind \in {"create", "webhook", "delete"}
        /\ \A j \in EndsOf(i) : k < j}

CreateSucceeded(i) == \E k \in StepsOf(i) : events[k].kind = "create" /\ events[k].ok

AckSucceeded(i) == \E k \in StepsOf(i) : events[k].kind = "webhook" /\ events[k].ok

\* C11: in a sequence of add calls for one message id, the call whose
\* reaction-create succeeds returns a reaction id, and every add for that id
\* started after it ended returns reactionId = null without any external call
C11_FirstAddYieldsReactionLaterAddsSilent ==
    \A i \in AddCalls :
        HasEnded(i) =>
            /\ CreateSucceeded(i) => events[EndOf(i)].state.reactionId # Null
            /\ (\E h \in AddCalls :
                    /\ events[h].messageId = events[i].messageId
                    /\ HasEnded(h) /\ EndOf(h) < i
                    /\ CreateSucceeded(h))
               => /\ events[EndOf(i)].state.reactionId = Null
                  /\ StepsOf(i) = {}

\* in this step the reaction-create of call p failed with a quota error
CreateFailedWithQuota(p) ==
    /\ tasks[p].pc = "create"
    /\ Len(events') > Len(events)
    /\ LET e == events'[Len(events) + 1] IN
          e.kind = "create" /\ e.task = p /\ ~e.ok /\ Includes(e.out, <<"4","2","9">>)

\* call p was given a chat id whose normalized form has a webhook configured
HookConfigured(p) ==
    /\ Truthy(tasks[p].chatId)
    /\ LET id == normalizeFeishuTarget(tasks[p].chatId) IN
          /\ id \in DOMAIN cfg.groups
          /\ Truthy(cfg.groups[id].webhookUrl)

\* in this step the acknowledgment sent by call p through the webhook settled
AckSettled(p) == tasks[p].pc = "webhook" /\ tasks'[p].pc # "webhook"

\* C12 as stated: a quota failure of the reaction-create, with a chat id and
\* a webhook configured for the normalized chat, makes addTypingIndicator
\* send the glyph through the webhook, record the message id and return
\* usedWebhook = true with no reaction id
C12_QuotaFailureAlwaysAcknowledged ==
    [][\A p \in Slots :
          /\ (CreateFailedWithQuota(p) /\ HookConfigured(p)) => tasks'[p].pc = "webhook"
          /\ AckSettled(p) =>
                LET e == events'[Len(events) + 1]
                    r == events'[Len(events) + 2]
                IN  /\ e.kind = "webhook" /\ e.task = p /\ e.arg = Eyes
                    /\ tasks[p].messageId \in sentTypingIndicators'
                    /\ r.kind = "add.return"
                    /\ r.state = TypingIndicatorState(tasks[p].messageId, Null, TRUE)
      ]_vars

\* C12, amended: under the same conditions addTypingIndicator posts the glyph
\* to the webhook configured for the normalized chat; when that send
\* succeeds it records the message id and returns usedWebhook = true with no
\* reaction id; when it fails it records nothing and returns a plain state
C12_QuotaFailureAcknowledgedIfSendSucceeds ==
    [][\A p \in Slots :
          /\ (CreateFailedWithQuota(p) /\ HookConfigured(p)) =>
                /\ tasks'[p].pc = "webhook"
                /\ tasks'[p].webhookUrl =
                      cfg.groups[normalizeFeishuTarget(tasks[p].chatId)].webhookUrl
                /\ UNCHANGED sentTypingIndicators
          /\ AckSettled(p) =>
                LET e == events'[Len(events) + 1]
                    r == events'[Len(events) + 2]
                    m == tasks[p].messageId
                IN  /\ e.kind = "webhook" /\ e.task = p /\ e.arg = Eyes
                    /\ e.out = tasks[p].webhookUrl
                    /\ r.kind = "add.return" /\ r.task = p
                    /\ Len(events') = Len(events) + 2
                    /\ IF e.ok
                       THEN /\ sentTypingIndicators' = sentTypingIndicators \cup {m}
                            /\ r.state = TypingIndicatorState(m, Null, TRUE)
                       ELSE /\ UNCHANGED sentTypingIndicators
                            /\ r.state = TypingIndicatorState(m, Null, FALSE)
      ]_vars

C12_Witness ==
    \E k \in 1..(Len(events) - 1) :
        /\ events[k].kind = "webhook" /\ events[k].ok /\ events[k].arg = Eyes
        /\ events[k].out = Hook1
        /\ events[k + 1].kind = "add.return" /\ events[k + 1].state.usedWebhook
        /\ events[k + 1].state.reactionId = Null
        /\ events[k].messageId \in sentTypingIndicators
        /\ \E j \in 1..(k - 1) : events[j].kind = "create" /\ ~events[j].ok
                                 /\ events[j].task = events[k].task

\* the sends of an indicator for message id m that succeeded
SuccessfulSends(m) ==
    {k \in 1..Len(events) :
        events[k].messageId = m /\ events[k].kind \in {"create", "webhook"} /\ events[k].ok}

\* C13: a message id is in the sent registry exactly when an add call for
\* it completed a successful send (reaction-create or webhook
\* acknowledgment); an add that made no successful send returns
\* reactionId = null, and an add started while no send for its id has
\* succeeded calls the primary API
C13_OnlySuccessfulSendsSuppress ==
    /\ sentTypingIndicators \subseteq MessageIds
    /\ \A m \in MessageIds : m \in sentTypingIndicators <=> SuccessfulSends(m) # {}
    /\ \A i \in AddCalls :
          (HasEnded(i) /\ ~CreateSucceeded(i) /\ ~AckSucceeded(i)) =>
              events[EndOf(i)].state = TypingIndicatorState(events[i].messageId, Null, FALSE)
    /\ \A i \in AddCalls :
          (cfg.feishu /\ \A k \in SuccessfulSends(events[i].messageId) : k > i) =>
              \/ \E k \in StepsOf(i) : events[k].kind = "create"
              \/ ~HasEnded(i) /\ tasks[events[i].task].pc = "create"

C13_Witness ==
    \E i, h \in AddCalls :
        /\ events[i].messageId = events[h].messageId
        /\ HasEnded(i) /\ EndOf(i) < h
        /\ \E k \in StepsOf(i) : events[k].kind = "create" /\ ~events[k].ok
        /\ \E k \in StepsOf(i) : events[k].kind = "webhook" /\ ~events[k].ok
        /\ events[EndOf(i)].state.reactionId = Null
        /\ events[i].messageId \notin sentTypingIndicators
        /\ \E k \in StepsOf(h) : events[k].kind = "create"

\* the first event this step adds
NewEvent == events'[Len(events) + 1]

\* C14: no step removes a message id from the sent registry, a step of
\* removeTypingIndicator leaves the registry as it is, and an add for a
\* message id in the registry returns at once with reactionId = null,
\* whatever was removed before
C14_RegistryOnlyGrows ==
    [][/\ sentTypingIndicators \subseteq sentTypingIndicators'
       /\ Len(events') > Len(events)
       /\ NewEvent.kind \in {"remove", "delete"} => UNCHANGED sentTypingIndicators
       /\ (NewEvent.kind = "add" /\ NewEvent.messageId \in sentTypingIndicators) =>
             /\ events' = events \o
                    << NewEvent,
                       Completed("add.return", NewEvent.task,
                                 TypingIndicatorState(NewEvent.messageId, Null, FALSE)) >>
             /\ UNCHANGED <<sentTypingIndicators, tasks>>
      ]_vars

C14_Witness ==
    \E i \in AddCalls, d \in 1..Len(events) :
        /\ events[d].kind = "delete" /\ events[d].ok
        /\ events[d].messageId = events[i].messageId
        /\ d < i
        /\ HasEnded(i) /\ StepsOf(i) = {}
        /\ events[EndOf(i)].state.reactionId = Null
        /\ events[i].messageId \in sentTypingIndicators

\* C15: whatever the reaction-create, the webhook acknowledgment and the
\* reaction-delete do, addTypingIndicator ends by returning a state and
\* removeTypingIndicator ends by returning; neither call ends by raising
C15_IndicatorFailuresNeverRaise ==
    /\ \A k \in 1..Len(events) : events[k].kind \notin {"add.throw", "remove.throw"}
    /\ \A i \in AddCalls \cup RemoveCalls :
          \/ HasEnded(i)
          \/ tasks[events[i].task].pc \in {"create", "webhook", "delete"}
    /\ \A i \in AddCalls :
          HasEnded(i) =>
              /\ events[EndOf(i)].kind = "add.return"
              /\ events[EndOf(i)].state.messageId = events[i].messageId
    /\ \A k \in 1..Len(events) :
          events[k].kind = "delete" =>
              /\ k < Len(events)
              /\ events[k + 1].kind = "remove.return"
              /\ events[k + 1].task = events[k].task
    /\ \A k \in 1..Len(events) :
          (events[k].kind = "webhook" \/ (events[k].kind = "create" /\ events[k].ok)) =>
              /\ k < Len(events)
              /\ events[k + 1].kind = "add.return"
              /\ events[k + 1].task = events[k].task
    /\ \A k \in 1..Len(events) :
          (events[k].kind = "create" /\ ~events[k].ok) =>
              \/ tasks[events[k].task].pc = "webhook" /\ ~HasEnded(k)
              \/ HasEnded(k) /\ events[EndOf(k)].kind = "add.return"

C15_Witness ==
    /\ \E k \in 1..Len(events) :
          /\ events[k].kind = "delete" /\ events[k].out = ErrorString(ErrNotFound)
          /\ events[k + 1].kind = "remove.return"
    /\ \E k \in 1..Len(events) :
          /\ events[k].kind = "webhook" /\ ~events[k].ok
          /\ events[k + 1].kind = "add.return"
    /\ \E k \in 1..Len(events) :
          /\ events[k].kind = "create" /\ events[k].out = ErrorString(Err429)
          /\ HasEnded(k) /\ events[EndOf(k)].kind = "add.return"
    /\ \A p \in Slots : tasks[p].pc = "idle"

\* C16: of two removeTypingIndicator calls given the same state, the second
\* started after the first ended, the second is a no-op: it returns without
\* a reaction-delete call and without raising
C16_SecondRemoveIsNoOp ==
    \A i, h \in RemoveCalls :
        (events[i].state = events[h].state /\ HasEnded(i) /\ EndOf(i) < h) =>
            /\ HasEnded(h)
            /\ StepsOf(h) = {}
            /\ events[EndOf(h)].kind = "remove.return"

\* the start of the call that made the external call logged at k
CallOf(k) ==
    CHOOSE i \in 1..k :
        /\ events[i].task = events[k].task /\ events[i].kind \in {"add", "remove"}
        /\ \A j \in (i + 1)..k :
              ~(events[j].task = events[k].task /\ events[j].kind \in {"add", "remove"})

\* two indicators were sent for m only by calls that overlapped: the call
\* that sent the later one had passed the registry check before the
\* earlier one was sent
DuplicatesOverlap(m) ==
    \A k1, k2 \in SuccessfulSends(m) : k1 < k2 => CallOf(k2) < k1

\* C17: two add calls for one message id that are both in flight can both
\* send an indicator, and that is the only way a message id gets two; a
\* step of a call for one message id changes the registry at that id only
\* and no other call's locals, and no step of the tracker touches the state
\* of a text or media send
C17_DuplicateOnlyByConcurrentAdds ==
    [][/\ \A m \in MessageIds : DuplicatesOverlap(m)'
       /\ Len(events') > Len(events)
       /\ sentTypingIndicators' \ sentTypingIndicators \subseteq {NewEvent.messageId}
       /\ \A p \in Slots : tasks'[p] # tasks[p] => p = NewEvent.task
       /\ UNCHANGED pipelineVars
      ]_vars

C17_Witness ==
    \E m \in MessageIds : \E k1, k2 \in SuccessfulSends(m) :
        /\ k1 < k2
        /\ events[k1].task # events[k2].task
        /\ events[k1].kind = "create" /\ events[k2].kind = "create"
        /\ CallOf(k2) < k1
        /\ CallOf(k1) < CallOf(k2)

\* ------------------------------------------------------------------------
\* Outbound facade: further properties
\* ------------------------------------------------------------------------

\* sendMedia was given a text that is not blank and a media reference
Combined == text # Undefined /\ Trim(text) # <<>> /\ Truthy(mediaUrl)

TextCalls == CallsOf({"sendMessageFeishuWithFallback"})

\* the facade ended with what the send logged at k produced
EndedWith(k) ==
    IF calls[k].ok
    THEN fret.kind = "return" /\ fret.result.messageId = calls[k].out
                              /\ fret.result.channel = "feishu"
    ELSE fret.kind = "throw" /\ ErrorString(fret.error) = calls[k].out

\* what C18 says once the text send is over and media delivery has settled
AfterMediaSettled ==
    /\ pc = "done"
    /\ ret.kind = "throw" =>
          /\ Cardinality(TextCalls) = 2
          /\ Len(calls) \in TextCalls
          /\ calls[Len(calls)].arg = Paperclip \o <<" ">> \o mediaUrl
          /\ EndedWith(Len(calls))
    /\ ret.kind = "return" =>
          /\ TextCalls = {1}
          /\ fret.kind = "return"
          /\ fret.result.messageId = ret.result.messageId
          /\ fret.result.chatId = ret.result.chatId

\* the part of C18 that holds whatever the text send does: the text goes
\* out first and has succeeded when media delivery starts, and no link is
\* sent before media delivery has settled
TextBeforeMedia ==
    /\ (pc # "idle" \/ fpc # "start") =>
          /\ Len(calls) >= 1
          /\ calls[1].op = "sendMessageFeishuWithFallback"
          /\ calls[1].arg = text
    /\ pc # "idle" => calls[1].ok
    /\ fpc # "done" => TextCalls \subseteq {1}

\* C18 as stated: for a combined request the text is sent first, then media
\* delivery is attempted; a raising media chain is followed by exactly one
\* send of the plain link, whose outcome is sendMedia's outcome, and a
\* returning one by no further send
C18_TextThenMediaThenLink ==
    Combined =>
        /\ TextBeforeMedia
        /\ fpc = "done" => AfterMediaSettled

\* C18, amended: as above when the text send succeeds; when the text send
\* fails, sendMedia raises that failure and media delivery is not attempted
C18_TextThenMediaThenLinkIfTextSent ==
    Combined =>
        /\ TextBeforeMedia
        /\ (fpc = "done" /\ calls[1].ok) => AfterMediaSettled
        /\ (fpc = "done" /\ ~calls[1].ok) =>
              /\ pc = "idle"
              /\ Len(calls) = 1
              /\ EndedWith(1)

C18_Witness ==
    /\ Combined
    /\ fpc = "done"
    /\ ret.kind = "throw"
    /\ Len(posts) >= 1
    /\ calls[Len(calls)].op = "sendMessageFeishuWithFallback"
    /\ calls[Len(calls)].ok
    /\ fret.kind = "return"

\* ------------------------------------------------------------------------
\* Quota classifier: properties
\* ------------------------------------------------------------------------

\* s contains the pattern in some mix of upper and lower case
MatchesAnyCase(s, lower, upper) ==
    \E i \in 0..(Len(s) - Len(lower)) :
        \A j \in 1..Len(lower) : s[i + j] \in {lower[j], upper[j]}

QuotaPatternIn(s) ==
    \/ Includes(s, <<"4","2","9">>)
    \/ Includes(s, <<"9","9","9","9","1","4","0","3">>)
    \/ MatchesAnyCase(s, <<"q","u","o","t","a">>, <<"Q","U","O","T","A">>)
    \/ MatchesAnyCase(s, <<"r","a","t","e"," ","l","i","m","i","t">>, <<"R","A","T","E"," ","L","I","M","I","T">>)

\* C19: isQuotaError answers true exactly for the errors whose string form
\* contains "429", "99991403", or in any letter case "quota" or
\* "rate limit"; errors with the same string form get the same answer,
\* whatever else they carry and whatever was asked before
C19_ClassifiesByStringFormOnly ==
    \A i \in 1..Len(probes) :
        /\ probes[i].result <=> QuotaPatternIn(ErrorString(probes[i].error))
        /\ \A j \in 1..Len(probes) :
              ErrorString(probes[j].error) = ErrorString(probes[i].error) =>
                  probes[j].result = probes[i].result

C19_Witness ==
    /\ Len(probes) = 2
    /\ probes[1].error.message = <<"n","o","t"," ","f","o","u","n","d">> /\ probes[1].error.code = 429
    /\ ~probes[1].result
    /\ probes[2].error.message = <<"R","a","t","e"," ","L","i","m","i","t"," ","r","e","a","c","h","e","d">> /\ probes[2].error.code = 0
    /\ probes[2].result

\* ------------------------------------------------------------------------
\* Media delivery orchestrator: further properties
\* ------------------------------------------------------------------------

\* C20: an image host is called only after uploadImageFeishu has failed with
\* a quota-classified error, never after it succeeded or failed otherwise
C20_HostOnlyAfterQuotaUploadFailure ==
    \A k \in CallsOf(HostOps) :
        \E u \in CallsOf({"uploadImageFeishu"}) :
            /\ u < k
            /\ ~calls[u].ok
            /\ QuotaPatternIn(calls[u].out)

\* the calls sendMediaFeishuWithFallback itself makes
MediaOps == FallbackOps \cup {"sendMediaFeishu"}

\* the webhook sends of this call that succeeded
SuccessfulPosts == {i \in 1..Len(posts) : posts[i].error = NoError}

\* C21: sendMediaFeishuWithFallback returns the webhook-sent result exactly
\* when one of its webhook sends succeeded; then that send is the only one
\* that succeeded and the last call it made, the call has ended, and the
\* chatId returned is the normalized target, not the target as given
C21_SentinelIffWebhookSucceeded ==
    /\ (ret.kind = "return" /\ ret.result.messageId = WebhookSent) <=> SuccessfulPosts # {}
    /\ SuccessfulPosts # {} =>
          /\ SuccessfulPosts = {Len(posts)}
          /\ pc = "done"
          /\ LET M == CallsOf(MediaOps)
                 last == CHOOSE k \in M : \A j \in M : j <= k
             IN  /\ calls[last].op = "sendViaWebhook"
                 /\ calls[last].ok
                 /\ Cardinality({k \in M : calls[k].op = "sendViaWebhook" /\ calls[k].ok}) = 1
          /\ ret.result.chatId = chatId
          /\ Truthy(chatId)
          /\ to = <<"c","h","a","t",":","o","c","_","1">> => ret.result.chatId = <<"o","c","_","1">>
    /\ (ret.kind = "return" /\ ret.result.messageId # WebhookSent) =>
          /\ Len(posts) = 0
          /\ CallsOf(MediaOps) = CallsOf({"sendMediaFeishu"})

C21_Witness ==
    /\ pc = "done"
    /\ ret = Returned([messageId |-> WebhookSent, chatId |-> <<"o","c","_","1">>])
    /\ to = <<"c","h","a","t",":","o","c","_","1">>
    /\ Len(posts) = 3
    /\ posts[3].error = NoError
    /\ CallsOf(HostOps) # {}
====
